---- MODULE Spec2Model ----
(***************************************************************************)
(* Model of awx/sso/backends.py: the four license-gated authentication     *)
(* backends (LDAP, RADIUS, TACACS+, SAML) and the LDAP group-to-role       *)
(* synchronisation done by on_populate_user / _update_m2m_from_groups.     *)
(*                                                                         *)
(* SpecAuth : one authentication request at a time against the backends.   *)
(* SpecM2M  : _update_m2m_from_groups applied to one relation.             *)
(* SpecSync : the populate_user receiver run against the entity store.     *)
(***************************************************************************)
EXTENDS Integers, Sequences, FiniteSets, TLC

VARIABLES
    \* ---- authentication requests (SpecAuth) ----
    pc,             \* "idle" | "returned": position of the current request
    request,        \* the call being served: backend, operation, arguments, environment
    outcome,        \* what the call did: result, raised, feature checks, client calls, log
    users,          \* django.contrib.auth User table: username -> row
    \* ---- _update_m2m_from_groups (SpecM2M) ----
    m2m,            \* one call of the helper: arguments, relation before and after
    \* ---- group synchronisation (SpecSync) ----
    organizations,  \* Organization table: set of names (name is unique)
    teams,          \* Team table: set of [name, organization]
    admin_role,     \* organization name -> members of org.admin_role
    member_role,    \* organization name -> members of org.member_role
    team_role,      \* [name, organization] -> members of team.member_role
    ldap_dn,        \* username -> profile.ldap_dn
    ldap_user,      \* the LDAP session handed to the receiver (or NoSession)
    sync,           \* bookkeeping of the receiver's last run in this session
    \* ---- LDAPBackend instances and their settings (SpecLDAP, SpecLDAPThreads) ----
    backends,       \* instance -> its state, _dispatch_uid and _settings
    receivers,      \* setting_changed's receivers: [uid, receiver]
    snapshots,      \* number of LDAPSettings objects constructed so far
    signal,         \* the last call made on the instances, and what it found
    thread,         \* a thread inside _get_settings of an instance, step by step
    \* ---- concurrent runs of the receiver (SpecRace) ----
    tables,         \* Organization and Team rows, role members, profiles
    workers         \* user -> position of the receiver run for that user's session

authVars == <<pc, request, outcome, users>>
m2mVars  == <<m2m>>
syncVars == <<organizations, teams, admin_role, member_role, team_role, ldap_dn, ldap_user, sync>>
ldapVars == <<backends, receivers, snapshots, signal, thread>>
raceVars == <<tables, workers>>
vars     == <<pc, request, outcome, users, m2m, organizations, teams, admin_role,
              member_role, team_role, ldap_dn, ldap_user, sync,
              backends, receivers, snapshots, signal, thread, tables, workers>>

\* Python's None
None == "None"

(***************************************************************************)
(* Universes                                                               *)
(***************************************************************************)
Usernames == {"alice", "bob"}
Passwords == {None, "secret"}
Features  == {"ldap", "enterprise_auth"}
Backends  == {"ldap", "radius", "tacacsplus", "saml"}
Operations == {"authenticate", "get_user"}

\* what the delegate (base class / protocol client) does when it is reached
ClientOutcomes == {"valid", "rejected", "error"}

\* a setting is either empty (falsy) or set
SettingValues == {"", "set"}

\* Python truthiness of a setting value
Truthy(v) == v # "" /\ v # None

SAML_REQUIRED ==
    {"SOCIAL_AUTH_SAML_SP_ENTITY_ID", "SOCIAL_AUTH_SAML_SP_PUBLIC_CERT",
     "SOCIAL_AUTH_SAML_SP_PRIVATE_KEY", "SOCIAL_AUTH_SAML_ORG_INFO",
     "SOCIAL_AUTH_SAML_TECHNICAL_CONTACT", "SOCIAL_AUTH_SAML_SUPPORT_CONTACT",
     "SOCIAL_AUTH_SAML_ENABLED_IDPS"}

\* the settings each backend reads in its configuration check
RequiredSettings(b) ==
    CASE b = "ldap"       -> {"SERVER_URI"}
      [] b = "radius"     -> {"RADIUS_SERVER"}
      [] b = "tacacsplus" -> {"TACACSPLUS_HOST"}
      [] b = "saml"       -> SAML_REQUIRED

(***************************************************************************)
(* User table                                                              *)
(***************************************************************************)
NoUser == [exists |-> FALSE, is_superuser |-> FALSE, usable_password |-> FALSE]

UserRows == {NoUser} \cup
            [exists : {TRUE}, is_superuser : BOOLEAN, usable_password : BOOLEAN]

(***************************************************************************)
(* Outcome of a handler                                                    *)
(***************************************************************************)
LogEntry(level, msg) == [level |-> level, msg |-> msg]

\* result: the returned user (a username) or None; raised: an exception left the
\* handler; gate: the features asked of feature_enabled, in order; client: number of
\* calls made to the delegate; log: records written; users: the user table afterwards
Outcome(result, raised, gate, client, log, utable) ==
    [result |-> result, raised |-> raised, gate |-> gate, client |-> client,
     log |-> log, users |-> utable]

NoOutcome == Outcome(None, FALSE, <<>>, 0, <<>>, [u \in Usernames |-> NoUser])

\* awx.conf.license.feature_enabled under the license of the request
feature_enabled(license, name) == name \in license

(***************************************************************************)
(* LDAPBackend                                                             *)
(***************************************************************************)
LDAPBackend_authenticate(req, utable) ==
    IF ~Truthy(req.settings["SERVER_URI"])
    THEN Outcome(None, FALSE, <<>>, 0, <<>>, utable)
    ELSE IF ~feature_enabled(req.license, "ldap")
    THEN Outcome(None, FALSE, <<"ldap">>, 0,
                 <<LogEntry("error", "Unable to authenticate, license does not support LDAP authentication")>>,
                 utable)
    ELSE \* try: return super().authenticate(username, password)
         CASE req.client = "valid"    -> Outcome(req.username, FALSE, <<"ldap">>, 1, <<>>, utable)
           [] req.client = "rejected" -> Outcome(None, FALSE, <<"ldap">>, 1, <<>>, utable)
           [] req.client = "error"    -> \* except Exception: logger.exception(...); return None
                Outcome(None, FALSE, <<"ldap">>, 1,
                        <<LogEntry("exception", "Encountered an error authenticating to LDAP")>>,
                        utable)

LDAPBackend_get_user(req, utable) ==
    IF ~Truthy(req.settings["SERVER_URI"])
    THEN Outcome(None, FALSE, <<>>, 0, <<>>, utable)
    ELSE IF ~feature_enabled(req.license, "ldap")
    THEN Outcome(None, FALSE, <<"ldap">>, 0,
                 <<LogEntry("error", "Unable to get_user, license does not support LDAP authentication")>>,
                 utable)
    ELSE \* return super().get_user(user_id): no try around it
         CASE req.client = "valid"    -> Outcome(req.username, FALSE, <<"ldap">>, 1, <<>>, utable)
           [] req.client = "rejected" -> Outcome(None, FALSE, <<"ldap">>, 1, <<>>, utable)
           [] req.client = "error"    -> Outcome(None, TRUE, <<"ldap">>, 1, <<>>, utable)

(***************************************************************************)
(* RADIUSBackend                                                           *)
(***************************************************************************)
\* get_django_user: fetch the row or build an unsaved User; the row is written
\* (set_unusable_password, save) only when a password was given. The user object is
\* returned either way.
RADIUSBackend_get_django_user(username, password, utable) ==
    LET user == IF utable[username].exists
                THEN utable[username]
                ELSE [exists |-> FALSE, is_superuser |-> FALSE, usable_password |-> FALSE]
    IN  IF password # None
        THEN [utable EXCEPT ![username] =
                 [user EXCEPT !.exists = TRUE, !.usable_password = FALSE]]
        ELSE utable

\* variant: no license check between the configuration check and the delegate
RADIUSBackend_authenticate_ungated(req, utable) ==
    IF ~Truthy(req.settings["RADIUS_SERVER"])
    THEN Outcome(None, FALSE, <<>>, 0, <<>>, utable)
    ELSE CASE req.client = "valid"    ->
                Outcome(req.username, FALSE, <<>>, 1, <<>>,
                        RADIUSBackend_get_django_user(req.username, req.password, utable))
           [] req.client = "rejected" -> Outcome(None, FALSE, <<>>, 1, <<>>, utable)
           [] req.client = "error"    -> Outcome(None, TRUE, <<>>, 1, <<>>, utable)

RADIUSBackend_authenticate(req, utable) ==
    IF ~Truthy(req.settings["RADIUS_SERVER"])
    THEN Outcome(None, FALSE, <<>>, 0, <<>>, utable)
    ELSE IF ~feature_enabled(req.license, "enterprise_auth")
    THEN Outcome(None, FALSE, <<"enterprise_auth">>, 0,
                 <<LogEntry("error", "Unable to authenticate, license does not support RADIUS authentication")>>,
                 utable)
    ELSE \* return super().authenticate(username, password): no try around it; the
         \* base class resolves an accepted user through self.get_django_user
         CASE req.client = "valid"    ->
                Outcome(req.username, FALSE, <<"enterprise_auth">>, 1, <<>>,
                        RADIUSBackend_get_django_user(req.username, req.password, utable))
           [] req.client = "rejected" -> Outcome(None, FALSE, <<"enterprise_auth">>, 1, <<>>, utable)
           [] req.client = "error"    -> Outcome(None, TRUE, <<"enterprise_auth">>, 1, <<>>, utable)

RADIUSBackend_get_user(req, utable) ==
    IF ~Truthy(req.settings["RADIUS_SERVER"])
    THEN Outcome(None, FALSE, <<>>, 0, <<>>, utable)
    ELSE IF ~feature_enabled(req.license, "enterprise_auth")
    THEN Outcome(None, FALSE, <<"enterprise_auth">>, 0,
                 <<LogEntry("error", "Unable to get_user, license does not support RADIUS authentication")>>,
                 utable)
    ELSE CASE req.client = "valid"    -> Outcome(req.username, FALSE, <<"enterprise_auth">>, 1, <<>>, utable)
           [] req.client = "rejected" -> Outcome(None, FALSE, <<"enterprise_auth">>, 1, <<>>, utable)
           [] req.client = "error"    -> Outcome(None, TRUE, <<"enterprise_auth">>, 1, <<>>, utable)

(***************************************************************************)
(* TACACSPlusBackend                                                       *)
(***************************************************************************)
\* _get_or_set_user: the user table and the log records written
TACACSPlusBackend_get_or_set_user(username, password, utable) ==
    LET created == ~utable[username].exists
        user    == IF created
                   THEN [exists |-> TRUE, is_superuser |-> FALSE, usable_password |-> FALSE]
                   ELSE utable[username]
        table1  == [utable EXCEPT ![username] = user]
    IN  [log   |-> IF created THEN <<LogEntry("debug", "Created TACACS+ user")>> ELSE <<>>,
         users |-> IF password # None
                   THEN [table1 EXCEPT ![username].usable_password = FALSE]
                   ELSE table1]

\* variant: the user is fetched or created before the client's answer is looked at
TACACSPlusBackend_authenticate_provisions_early(req, utable) ==
    IF ~Truthy(req.settings["TACACSPLUS_HOST"])
    THEN Outcome(None, FALSE, <<>>, 0, <<>>, utable)
    ELSE IF ~feature_enabled(req.license, "enterprise_auth")
    THEN Outcome(None, FALSE, <<"enterprise_auth">>, 0,
                 <<LogEntry("error", "Unable to authenticate, license does not support TACACS+ authentication")>>,
                 utable)
    ELSE IF req.password = None
    THEN Outcome(None, FALSE, <<"enterprise_auth">>, 0,
                 <<LogEntry("exception", "TACACS+ Authentication Error")>>, utable)
    ELSE LET got == TACACSPlusBackend_get_or_set_user(req.username, req.password, utable)
         IN  CASE req.client = "error"    ->
                     Outcome(None, FALSE, <<"enterprise_auth">>, 1,
                             <<LogEntry("exception", "TACACS+ Authentication Error")>>, utable)
                [] req.client = "rejected" ->
                     Outcome(None, FALSE, <<"enterprise_auth">>, 1, got.log, got.users)
                [] req.client = "valid"    ->
                     Outcome(req.username, FALSE, <<"enterprise_auth">>, 1, got.log, got.users)

\* authenticate: the client is asked inside try/except; the user is provisioned
\* after it, and only if auth.valid
TACACSPlusBackend_authenticate(req, utable) ==
    IF ~Truthy(req.settings["TACACSPLUS_HOST"])
    THEN Outcome(None, FALSE, <<>>, 0, <<>>, utable)
    ELSE IF ~feature_enabled(req.license, "enterprise_auth")
    THEN Outcome(None, FALSE, <<"enterprise_auth">>, 0,
                 <<LogEntry("error", "Unable to authenticate, license does not support TACACS+ authentication")>>,
                 utable)
    ELSE IF req.password = None
    THEN \* password.encode('utf-8') raises inside the try, before the client is called
         Outcome(None, FALSE, <<"enterprise_auth">>, 0,
                 <<LogEntry("exception", "TACACS+ Authentication Error")>>, utable)
    ELSE CASE req.client = "error"    ->
                Outcome(None, FALSE, <<"enterprise_auth">>, 1,
                        <<LogEntry("exception", "TACACS+ Authentication Error")>>, utable)
           [] req.client = "rejected" -> Outcome(None, FALSE, <<"enterprise_auth">>, 1, <<>>, utable)
           [] req.client = "valid"    ->
                LET got == TACACSPlusBackend_get_or_set_user(req.username, req.password, utable)
                IN  Outcome(req.username, FALSE, <<"enterprise_auth">>, 1, got.log, got.users)

\* User.objects.get(pk=user_id): a table lookup, no protocol client
TACACSPlusBackend_get_user(req, utable) ==
    IF ~Truthy(req.settings["TACACSPLUS_HOST"])
    THEN Outcome(None, FALSE, <<>>, 0, <<>>, utable)
    ELSE IF ~feature_enabled(req.license, "enterprise_auth")
    THEN Outcome(None, FALSE, <<"enterprise_auth">>, 0,
                 <<LogEntry("error", "Unable to get user, license does not support TACACS+ authentication")>>,
                 utable)
    ELSE IF utable[req.username].exists
    THEN Outcome(req.username, FALSE, <<"enterprise_auth">>, 0, <<>>, utable)
    ELSE Outcome(None, FALSE, <<"enterprise_auth">>, 0, <<>>, utable)

(***************************************************************************)
(* SAMLAuth                                                                *)
(***************************************************************************)
\* variant: the check leaves SOCIAL_AUTH_SAML_ENABLED_IDPS out
SAMLAuth_configured_without_idps(settings) ==
    \A k \in SAML_REQUIRED \ {"SOCIAL_AUTH_SAML_ENABLED_IDPS"} : Truthy(settings[k])

\* all([...]) over the seven settings
SAMLAuth_configured(settings) == \A k \in SAML_REQUIRED : Truthy(settings[k])

SAMLAuth_authenticate(req, utable) ==
    IF ~SAMLAuth_configured(req.settings)
    THEN Outcome(None, FALSE, <<>>, 0, <<>>, utable)
    ELSE IF ~feature_enabled(req.license, "enterprise_auth")
    THEN Outcome(None, FALSE, <<"enterprise_auth">>, 0,
                 <<LogEntry("error", "Unable to authenticate, license does not support SAML authentication")>>,
                 utable)
    ELSE \* return super().authenticate(*args, **kwargs): no try around it
         CASE req.client = "valid"    -> Outcome(req.username, FALSE, <<"enterprise_auth">>, 1, <<>>, utable)
           [] req.client = "rejected" -> Outcome(None, FALSE, <<"enterprise_auth">>, 1, <<>>, utable)
           [] req.client = "error"    -> Outcome(None, TRUE, <<"enterprise_auth">>, 1, <<>>, utable)

SAMLAuth_get_user(req, utable) ==
    IF ~SAMLAuth_configured(req.settings)
    THEN Outcome(None, FALSE, <<>>, 0, <<>>, utable)
    ELSE IF ~feature_enabled(req.license, "enterprise_auth")
    THEN Outcome(None, FALSE, <<"enterprise_auth">>, 0,
                 <<LogEntry("error", "Unable to get_user, license does not support SAML authentication")>>,
                 utable)
    ELSE CASE req.client = "valid"    -> Outcome(req.username, FALSE, <<"enterprise_auth">>, 1, <<>>, utable)
           [] req.client = "rejected" -> Outcome(None, FALSE, <<"enterprise_auth">>, 1, <<>>, utable)
           [] req.client = "error"    -> Outcome(None, TRUE, <<"enterprise_auth">>, 1, <<>>, utable)

(***************************************************************************)
(* Requests                                                                *)
(***************************************************************************)
\* The calls a backend can receive: the arguments, the configuration and license in
\* force during the call, and what the delegate does if reached. get_user takes a
\* user id only; SAML's authenticate takes no password.
Requests(b, op) ==
    { r \in [backend  : {b}, op : {op}, username : Usernames, password : Passwords,
             settings : [RequiredSettings(b) -> SettingValues],
             license  : SUBSET Features, client : ClientOutcomes] :
        (op = "get_user" \/ b = "saml") => r.password = None }

NoRequest == [backend |-> None, op |-> None]

\* a request is served to completion: the call, the user table it found and what it
\* did are recorded, and the user table is as the handler left it
Serve(req, out) ==
    /\ pc' = "returned"
    /\ request' = ("users" :> users) @@ req
    /\ outcome' = out
    /\ users' = out.users
    /\ UNCHANGED <<m2mVars, syncVars, ldapVars, raceVars>>

LDAPAuthenticate ==
    /\ pc = "idle"
    /\ \E req \in Requests("ldap", "authenticate") : Serve(req, LDAPBackend_authenticate(req, users))

LDAPGetUser ==
    /\ pc = "idle"
    /\ \E req \in Requests("ldap", "get_user") : Serve(req, LDAPBackend_get_user(req, users))

RADIUSAuthenticate ==
    /\ pc = "idle"
    /\ \E req \in Requests("radius", "authenticate") : Serve(req, RADIUSBackend_authenticate(req, users))

RADIUSGetUser ==
    /\ pc = "idle"
    /\ \E req \in Requests("radius", "get_user") : Serve(req, RADIUSBackend_get_user(req, users))

TACACSPlusAuthenticate ==
    /\ pc = "idle"
    /\ \E req \in Requests("tacacsplus", "authenticate") :
          Serve(req, TACACSPlusBackend_authenticate(req, users))

TACACSPlusGetUser ==
    /\ pc = "idle"
    /\ \E req \in Requests("tacacsplus", "get_user") : Serve(req, TACACSPlusBackend_get_user(req, users))

SAMLAuthenticate ==
    /\ pc = "idle"
    /\ \E req \in Requests("saml", "authenticate") : Serve(req, SAMLAuth_authenticate(req, users))

SAMLGetUser ==
    /\ pc = "idle"
    /\ \E req \in Requests("saml", "get_user") : Serve(req, SAMLAuth_get_user(req, users))

\* the caller has taken the result; the next request can be served
Return ==
    /\ pc = "returned"
    /\ pc' = "idle"
    /\ request' = NoRequest
    /\ outcome' = NoOutcome
    /\ UNCHANGED <<users, m2mVars, syncVars, ldapVars, raceVars>>

(***************************************************************************)
(* SpecAuth: authentication requests, one at a time                        *)
(***************************************************************************)
\* accounts that may exist before any external login: none, a local account,
\* a local superuser (both with a usable local password)
InitUserRows ==
    {NoUser} \cup [exists : {TRUE}, is_superuser : BOOLEAN, usable_password : {TRUE}]

NoM2M == [called |-> FALSE]

NoSession == [user |-> None]

NoSync == [runs |-> 0]

\* LDAPBackend instances: none is constructed, nothing is connected to the signal
MaxBackends == 2
Instances == 1..MaxBackends
\* self._settings is None, or the LDAPSettings object it holds: objects are told
\* apart by their order of construction, 1, 2, ..., and NoSettings stands for None
NoSettings == 0
Unborn == [state |-> "unborn", _dispatch_uid |-> 0, _settings |-> NoSettings]
NoSignal == [kind |-> "none"]
NoThread == [pc |-> "idle"]

NoBackends ==
    /\ backends = [i \in Instances |-> Unborn]
    /\ receivers = {}
    /\ snapshots = 0
    /\ signal = NoSignal
    /\ thread = NoThread

\* concurrent runs of the receiver: none
NoTables == [organizations |-> {}, teams |-> {}]

NoWorkers ==
    /\ tables = NoTables
    /\ workers = <<>>

\* the store and the helper are not used by the backends
StoreEmpty ==
    /\ organizations = {}
    /\ teams = {}
    /\ admin_role = <<>>
    /\ member_role = <<>>
    /\ team_role = <<>>
    /\ ldap_dn = [u \in Usernames |-> None]
    /\ ldap_user = NoSession
    /\ sync = NoSync

AuthIdle ==
    /\ pc = "idle"
    /\ request = NoRequest
    /\ outcome = NoOutcome

InitAuth ==
    /\ AuthIdle
    /\ users \in [Usernames -> InitUserRows]
    /\ m2m = NoM2M
    /\ StoreEmpty
    /\ NoBackends
    /\ NoWorkers

NextAuth ==
    \/ LDAPAuthenticate
    \/ LDAPGetUser
    \/ RADIUSAuthenticate
    \/ RADIUSGetUser
    \/ TACACSPlusAuthenticate
    \/ TACACSPlusGetUser
    \/ SAMLAuthenticate
    \/ SAMLGetUser
    \/ Return

SpecAuth == InitAuth /\ [][NextAuth]_vars

(***************************************************************************)
(* Claims about the backends                                               *)
(***************************************************************************)
\* the feature each backend asks the license for
RequiredFeature(b) == IF b = "ldap" THEN "ldap" ELSE "enterprise_auth"

\* some required setting of the request's backend is empty
Unconfigured(req) == \E k \in RequiredSettings(req.backend) : ~Truthy(req.settings[k])

HasLog(out, level) == \E i \in 1..Len(out.log) : out.log[i].level = level

\* C1: with the backend's required configuration absent (for SAML: any one of the
\* seven settings empty), authenticate and get_user return None at once: the feature
\* gate is not consulted and the delegate is not invoked, whatever the license.
C1_UnconfiguredReturnsNone ==
    (pc = "returned" /\ Unconfigured(request)) =>
        /\ outcome.result = None
        /\ ~outcome.raised
        /\ outcome.gate = <<>>
        /\ outcome.client = 0

\* C1 witness: SAML authenticate with exactly one of the seven settings empty, a
\* full license and a delegate that would have accepted, answered None
C1_Witness ==
    /\ pc = "returned"
    /\ request.backend = "saml"
    /\ request.op = "authenticate"
    /\ Cardinality({k \in SAML_REQUIRED : ~Truthy(request.settings[k])}) = 1
    /\ request.license = Features
    /\ request.client = "valid"
    /\ outcome.result = None
    /\ outcome.gate = <<>>

\* C2: with the configuration present and the required feature disabled,
\* authenticate returns None, writes an error-level log record and does not invoke
\* the delegate.
C2_UnlicensedReturnsNone ==
    (/\ pc = "returned"
     /\ request.op = "authenticate"
     /\ ~Unconfigured(request)
     /\ RequiredFeature(request.backend) \notin request.license) =>
        /\ outcome.result = None
        /\ ~outcome.raised
        /\ HasLog(outcome, "error")
        /\ outcome.client = 0

\* C2 witness: RADIUS authenticate, server configured, only the 'ldap' feature
\* licensed, delegate would have accepted: None and an error record
C2_Witness ==
    /\ pc = "returned"
    /\ request.backend = "radius"
    /\ request.op = "authenticate"
    /\ Truthy(request.settings["RADIUS_SERVER"])
    /\ request.license = {"ldap"}
    /\ request.client = "valid"
    /\ outcome.result = None
    /\ HasLog(outcome, "error")

\* C3: for every backend, configured and licensed, an exception raised by the
\* delegate during authenticate is caught and authenticate returns None; nothing
\* propagates to the caller.
C3_ClientErrorIsCaught ==
    (/\ pc = "returned"
     /\ request.op = "authenticate"
     /\ ~Unconfigured(request)
     /\ RequiredFeature(request.backend) \in request.license
     /\ request.client = "error") =>
        /\ ~outcome.raised
        /\ outcome.result = None

(***************************************************************************)
(* Python values of the mapping settings                                   *)
(***************************************************************************)
PyNone     == [kind |-> "none"]
PyBool(b)  == [kind |-> "bool", val |-> b]
PyStr(str) == [kind |-> "str", val |-> str]
PyInt(n)   == [kind |-> "int", val |-> n]
PyList(l)  == [kind |-> "list", val |-> l]
\* a key that the dict does not hold
Missing    == [kind |-> "missing"]

\* Python truth value: None, False, 0, '' and [] are false
bool(v) ==
    CASE v.kind = "none" -> FALSE
      [] v.kind = "bool" -> v.val
      [] v.kind = "str"  -> v.val # ""
      [] v.kind = "int"  -> v.val # 0
      [] v.kind = "list" -> v.val # <<>>

\* isinstance(v, basestring)
isinstance_basestring(v) == v.kind = "str"

\* dict.get(key, default)
get(d, key, default) == IF d[key] = Missing THEN default ELSE d[key]

(***************************************************************************)
(* _update_m2m_from_groups                                                 *)
(***************************************************************************)
Groups == {"cn=admins,dc=x", "cn=users,dc=x"}

\* ldap_user._get_groups().is_member_of(group_dn) against the session's snapshot
is_member_of(groups, group_dn) == group_dn \in groups

\* variant: the loop ends at the first entry that is no string (break for continue)
RECURSIVE m2m_loop_breaks(_, _, _, _)
m2m_loop_breaks(groups, opts, i, should_add) ==
    IF i > Len(opts)
    THEN should_add
    ELSE LET group_dn == opts[i]
         IN  IF ~isinstance_basestring(group_dn)
             THEN should_add
             ELSE IF is_member_of(groups, group_dn.val)
             THEN m2m_loop_breaks(groups, opts, i + 1, TRUE)
             ELSE m2m_loop_breaks(groups, opts, i + 1, should_add)

\* the for loop over opts, from entry i on, carrying should_add
RECURSIVE m2m_loop(_, _, _, _)
m2m_loop(groups, opts, i, should_add) ==
    IF i > Len(opts)
    THEN should_add
    ELSE LET group_dn == opts[i]
         IN  IF ~isinstance_basestring(group_dn)
             THEN m2m_loop(groups, opts, i + 1, should_add)
             ELSE IF is_member_of(groups, group_dn.val)
             THEN m2m_loop(groups, opts, i + 1, TRUE)
             ELSE m2m_loop(groups, opts, i + 1, should_add)

\* variant: None is not told apart from the other false values, so it removes
update_m2m_from_groups_none_removes(user, groups, rel, opts, remove) ==
    LET should_add ==
            IF ~bool(opts) THEN FALSE
            ELSE IF opts = PyBool(TRUE) THEN TRUE
            ELSE m2m_loop(groups,
                          IF isinstance_basestring(opts) THEN <<opts>> ELSE opts.val,
                          1, FALSE)
    IN  IF should_add THEN rel \cup {user}
        ELSE IF remove THEN rel \ {user}
        ELSE rel

\* variant: a failed rule empties the relation (rel.clear() for rel.remove(user))
update_m2m_from_groups_clears(user, groups, rel, opts, remove) ==
    IF opts = PyNone
    THEN rel
    ELSE LET should_add ==
                 IF ~bool(opts) THEN FALSE
                 ELSE IF opts = PyBool(TRUE) THEN TRUE
                 ELSE m2m_loop(groups,
                               IF isinstance_basestring(opts) THEN <<opts>> ELSE opts.val,
                               1, FALSE)
         IN  IF should_add THEN rel \cup {user}
             ELSE IF remove THEN {}
             ELSE rel

\* the relation's members after _update_m2m_from_groups(user, ldap_user, rel, opts, remove)
update_m2m_from_groups(user, groups, rel, opts, remove) ==
    IF opts = PyNone
    THEN rel
    ELSE LET should_add ==
                 IF ~bool(opts) THEN FALSE
                 ELSE IF opts = PyBool(TRUE) THEN TRUE
                 ELSE m2m_loop(groups,
                               IF isinstance_basestring(opts) THEN <<opts>> ELSE opts.val,
                               1, FALSE)
         IN  IF should_add THEN rel \cup {user}
             ELSE IF remove THEN rel \ {user}
             ELSE rel

(***************************************************************************)
(* SpecM2M: the helper applied to one relation                             *)
(***************************************************************************)
MaxListLen == 2

\* what a list rule may hold: group identifiers and entries that are no strings
ListEntries == {PyStr(g) : g \in Groups} \cup {PyInt(7), PyNone}

RECURSIVE ListsUpTo(_)
ListsUpTo(n) ==
    IF n = 0 THEN {<<>>}
    ELSE LET shorter == ListsUpTo(n - 1)
         IN  shorter \cup {Append(l, e) : l \in {x \in shorter : Len(x) = n - 1}, e \in ListEntries}

\* the shapes an 'admins' / 'users' value takes: absent (None), a boolean, a single
\* group identifier (or the empty string), a list
Rules ==
    {PyNone, PyBool(TRUE), PyBool(FALSE), PyStr("")}
        \cup {PyStr(g) : g \in Groups}
        \cup {PyList(l) : l \in ListsUpTo(MaxListLen)}

InitM2M ==
    /\ AuthIdle
    /\ users = [u \in Usernames |-> NoUser]
    /\ StoreEmpty
    /\ NoBackends
    /\ NoWorkers
    /\ m2m \in [called : {FALSE}, user : Usernames, groups : SUBSET Groups,
                rel : SUBSET Usernames, opts : Rules, remove : BOOLEAN,
                after : {{}}]

\* the call is made on the arguments drawn
UpdateM2M ==
    /\ ~m2m.called
    /\ m2m' = [m2m EXCEPT !.called = TRUE,
                          !.after = update_m2m_from_groups(m2m.user, m2m.groups, m2m.rel,
                                                           m2m.opts, m2m.remove)]
    /\ UNCHANGED <<authVars, syncVars, ldapVars, raceVars>>

NextM2M == UpdateM2M

SpecM2M == InitM2M /\ [][NextM2M]_vars

\* the rule names a group the session belongs to: a string in the snapshot, or a list
\* with at least one string entry in the snapshot
MatchesGroup(opts, groups) ==
    \/ opts.kind = "str" /\ opts.val \in groups
    \/ opts.kind = "list" /\ \E i \in 1..Len(opts.val) :
            opts.val[i].kind = "str" /\ opts.val[i].val \in groups

\* C6: the helper adds the user iff the rule is True, or is a group identifier or a
\* list and the oracle reports membership in at least one string identifier of it;
\* False, an empty list, a rule with no matching group and the non-string entries of
\* a list never add. (No shape of Rules raises: the helper is total on them.)
C6_AddIffRuleHolds ==
    m2m.called =>
        LET added == m2m.user \in m2m.after /\ m2m.user \notin m2m.rel
            holds == m2m.opts = PyBool(TRUE) \/ MatchesGroup(m2m.opts, m2m.groups)
        IN  /\ holds => m2m.user \in m2m.after
            /\ ~holds => ~added
            /\ m2m.after \ {m2m.user} = m2m.rel \ {m2m.user}

\* C6 witness: a list holding a non-string entry and a group the session belongs to
\* put a user into a relation it was not in
C6_Witness ==
    /\ m2m.called
    /\ m2m.opts.kind = "list"
    /\ Len(m2m.opts.val) = 2
    /\ m2m.opts.val[1].kind = "int"
    /\ m2m.opts.val[2].kind = "str"
    /\ m2m.user \notin m2m.rel
    /\ m2m.user \in m2m.after

(***************************************************************************)
(* The entity store and on_populate_user                                   *)
(***************************************************************************)
OrgNames  == {"Engineering", "Support"}
TeamNames == {"QA", "Dev"}

Team(name, org) == [name |-> name, organization |-> org]

\* the tables the receiver reads and writes, as one value, with what a run did to
\* them: saves counts its profile.save() calls, org_creates and team_creates list
\* the rows it inserted, oracle lists its calls on ldap_user._get_groups()
Store(orgs, tms, admins, members, tmembers, dns) ==
    [organizations |-> orgs, teams |-> tms, admin_role |-> admins,
     member_role |-> members, team_role |-> tmembers, ldap_dn |-> dns,
     saves |-> 0, org_creates |-> <<>>, team_creates |-> <<>>, oracle |-> <<>>]

\* one call on the group oracle: get_group_dns() or is_member_of(group_dn)
OracleCall(op, group_dn) == [op |-> op, group_dn |-> group_dn]

\* the is_member_of calls one _update_m2m_from_groups makes, in order: none for
\* None, a falsy value or True, else one per string entry of the rule
m2m_oracle_calls(opts) ==
    IF opts = PyNone \/ ~bool(opts) \/ opts = PyBool(TRUE)
    THEN <<>>
    ELSE LET entries == IF isinstance_basestring(opts) THEN <<opts>> ELSE opts.val
             strings == SelectSeq(entries, isinstance_basestring)
         IN  [i \in 1..Len(strings) |-> OracleCall("is_member_of", strings[i].val)]

\* Organization.objects.get_or_create(name=name): a new organization has empty roles
Organization_get_or_create(db, name) ==
    IF name \in db.organizations
    THEN db
    ELSE [db EXCEPT !.organizations = @ \cup {name},
                    !.admin_role    = (name :> {}) @@ @,
                    !.member_role   = (name :> {}) @@ @,
                    !.org_creates   = Append(@, name)]

\* variant: Team.objects.create, whether or not the team exists
Team_create(db, name, org) ==
    [db EXCEPT !.teams        = @ \cup {Team(name, org)},
               !.team_role    = (Team(name, org) :> {}) @@ @,
               !.team_creates = Append(@, Team(name, org))]

\* Team.objects.get_or_create(name=name, organization=org)
Team_get_or_create(db, name, org) ==
    IF Team(name, org) \in db.teams
    THEN db
    ELSE [db EXCEPT !.teams     = @ \cup {Team(name, org)},
                    !.team_role = (Team(name, org) :> {}) @@ @,
                    !.team_creates = Append(@, Team(name, org))]

\* variant: remove_admins and remove_users default to True, not to the entry's 'remove'
sync_organization_default_true(db, session, org_name, org_opts) ==
    LET db1           == Organization_get_or_create(db, org_name)
        admins_opts   == get(org_opts, "admins", PyNone)
        remove_admins == bool(get(org_opts, "remove_admins", PyBool(TRUE)))
        db2           == [db1 EXCEPT !.admin_role[org_name] =
                             update_m2m_from_groups(session.user, session.groups, @,
                                                    admins_opts, remove_admins)]
        users_opts    == get(org_opts, "users", PyNone)
        remove_users  == bool(get(org_opts, "remove_users", PyBool(TRUE)))
    IN  [db2 EXCEPT !.member_role[org_name] =
            update_m2m_from_groups(session.user, session.groups, @,
                                   users_opts, remove_users),
                    !.oracle = @ \o m2m_oracle_calls(admins_opts)
                                 \o m2m_oracle_calls(users_opts)]

\* variant: the organization is fetched or created only when the entry gives a rule
sync_organization_lazy(db, session, org_name, org_opts) ==
    LET admins_opts   == get(org_opts, "admins", PyNone)
        users_opts    == get(org_opts, "users", PyNone)
    IN  IF admins_opts = PyNone /\ users_opts = PyNone
        THEN db
        ELSE LET db1           == Organization_get_or_create(db, org_name)
                 remove        == bool(get(org_opts, "remove", PyBool(TRUE)))
                 remove_admins == bool(get(org_opts, "remove_admins", PyBool(remove)))
                 db2           == [db1 EXCEPT !.admin_role[org_name] =
                                      update_m2m_from_groups(session.user, session.groups,
                                                             @, admins_opts, remove_admins)]
                 remove_users  == bool(get(org_opts, "remove_users", PyBool(remove)))
             IN  [db2 EXCEPT !.member_role[org_name] =
                     update_m2m_from_groups(session.user, session.groups, @,
                                            users_opts, remove_users),
                             !.oracle = @ \o m2m_oracle_calls(admins_opts)
                                          \o m2m_oracle_calls(users_opts)]

\* the body of the loop over org_map.items() for one (org_name, org_opts)
sync_organization(db, session, org_name, org_opts) ==
    LET db1           == Organization_get_or_create(db, org_name)
        remove        == bool(get(org_opts, "remove", PyBool(TRUE)))
        admins_opts   == get(org_opts, "admins", PyNone)
        remove_admins == bool(get(org_opts, "remove_admins", PyBool(remove)))
        db2           == [db1 EXCEPT !.admin_role[org_name] =
                             update_m2m_from_groups(session.user, session.groups, @,
                                                    admins_opts, remove_admins)]
        users_opts    == get(org_opts, "users", PyNone)
        remove_users  == bool(get(org_opts, "remove_users", PyBool(remove)))
    IN  [db2 EXCEPT !.member_role[org_name] =
            update_m2m_from_groups(session.user, session.groups, @,
                                   users_opts, remove_users),
                    !.oracle = @ \o m2m_oracle_calls(admins_opts)
                                 \o m2m_oracle_calls(users_opts)]

\* the body of the loop over team_map.items() for one (team_name, team_opts)
sync_team(db, session, team_name, team_opts) ==
    IF team_opts["organization"] = Missing
    THEN db
    ELSE LET org_name   == team_opts["organization"].val
             db1        == Organization_get_or_create(db, org_name)
             db2        == Team_get_or_create(db1, team_name, org_name)
             users_opts == get(team_opts, "users", PyNone)
             remove     == bool(get(team_opts, "remove", PyBool(TRUE)))
         IN  [db2 EXCEPT !.team_role[Team(team_name, org_name)] =
                 update_m2m_from_groups(session.user, session.groups, @,
                                        users_opts, remove),
                         !.oracle = @ \o m2m_oracle_calls(users_opts)]

\* variant: the loop over org_map.items() ends after its first item
sync_organizations_first_only(db, session, org_map, i) ==
    IF i > Len(org_map)
    THEN db
    ELSE sync_organization(db, session, org_map[i].name, org_map[i].opts)

\* for org_name, org_opts in org_map.items(), from item i on
RECURSIVE sync_organizations(_, _, _, _)
sync_organizations(db, session, org_map, i) ==
    IF i > Len(org_map)
    THEN db
    ELSE sync_organizations(
             sync_organization(db, session, org_map[i].name, org_map[i].opts),
             session, org_map, i + 1)

\* variant: the loop ends at the first entry without 'organization' (break for continue)
RECURSIVE sync_teams_breaks(_, _, _, _)
sync_teams_breaks(db, session, team_map, i) ==
    IF i > Len(team_map)
    THEN db
    ELSE IF team_map[i].opts["organization"] = Missing
    THEN db
    ELSE sync_teams_breaks(
             sync_team(db, session, team_map[i].name, team_map[i].opts),
             session, team_map, i + 1)

\* for team_name, team_opts in team_map.items(), from item i on
RECURSIVE sync_teams(_, _, _, _)
sync_teams(db, session, team_map, i) ==
    IF i > Len(team_map)
    THEN db
    ELSE sync_teams(
             sync_team(db, session, team_map[i].name, team_map[i].opts),
             session, team_map, i + 1)

\* variant: the profile is saved without the new ldap_dn being assigned
update_profile_unassigned(db, session) ==
    IF db.ldap_dn[session.user] # session.dn
    THEN [db EXCEPT !.saves = @ + 1]
    ELSE db

\* variant: the profile is saved on every run
update_profile_always(db, session) ==
    [db EXCEPT !.ldap_dn[session.user] = session.dn, !.saves = @ + 1]

\* profile.ldap_dn is written and saved only when it differs from ldap_user.dn
update_profile(db, session) ==
    IF db.ldap_dn[session.user] # session.dn
    THEN [db EXCEPT !.ldap_dn[session.user] = session.dn, !.saves = @ + 1]
    ELSE db

\* variant: the group names are prefetched at the head of each organization entry
\* instead of once at the head of the receiver
on_populate_user_prefetch_per_entry(db, session) ==
    LET org_map  == session.settings.ORGANIZATION_MAP
        team_map == session.settings.TEAM_MAP
        prefetch(d) == [d EXCEPT !.oracle = Append(@, OracleCall("get_group_dns", ""))]
        orgs[i \in 1..(Len(org_map) + 1)] ==
            IF i = 1 THEN db
            ELSE sync_organization(prefetch(orgs[i - 1]), session,
                                   org_map[i - 1].name, org_map[i - 1].opts)
        db2      == sync_teams(orgs[Len(org_map) + 1], session, team_map, 1)
    IN  update_profile(db2, session)

\* the receiver: the prefetch of the group names, then organizations, then teams,
\* then the profile. A dict is given as the sequence of its items in iteration order.
on_populate_user(db, session) ==
    LET org_map  == session.settings.ORGANIZATION_MAP
        team_map == session.settings.TEAM_MAP
        db0      == [db EXCEPT !.oracle = Append(@, OracleCall("get_group_dns", ""))]
        db1      == sync_organizations(db0, session, org_map, 1)
        db2      == sync_teams(db1, session, team_map, 1)
    IN  update_profile(db2, session)

(***************************************************************************)
(* SpecSync: the receiver run for one LDAP session                         *)
(***************************************************************************)
AdminsGroup == "cn=admins,dc=x"

\* the user's distinguished name in the directory
DN(user) == IF user = "alice" THEN "uid=alice,ou=people,dc=x" ELSE "uid=bob,ou=people,dc=x"

\* group snapshots of a session: always in the users group, maybe in the admins group
SessionGroups == {Groups \ {AdminsGroup}, Groups}

\* 'admins' / 'users' values of a mapping entry: no key, a boolean, a group identifier
SyncRules == {Missing, PyBool(TRUE), PyBool(FALSE), PyStr(AdminsGroup)}

\* 'remove', 'remove_admins', 'remove_users' values: no key or a boolean
Flags == {Missing, PyBool(TRUE), PyBool(FALSE)}

OrgOpts ==
    [admins : SyncRules, users : SyncRules,
     remove : Flags, remove_admins : Flags, remove_users : Flags]

TeamOpts ==
    [organization : {Missing} \cup {PyStr(o) : o \in OrgNames},
     users : SyncRules, remove : Flags]

\* entries used in tables of several entries: no remove flags
OrgOptsPlain ==
    [admins : {PyStr(AdminsGroup)}, users : {PyBool(TRUE), PyBool(FALSE)},
     remove : {Missing}, remove_admins : {Missing}, remove_users : {Missing}]

TeamOptsPlain ==
    [organization : {Missing} \cup {PyStr(o) : o \in OrgNames},
     users : {PyBool(TRUE), PyStr(AdminsGroup)}, remove : {Missing}]

Item(name, opts) == [name |-> name, opts |-> opts]

\* the dicts with keys among names and values among opts, each in every iteration
\* order of its items
Dicts(names, opts) ==
    LET items == {Item(n, o) : n \in names, o \in opts}
    IN  {<<>>} \cup {<<e>> : e \in items}
               \cup {d \in {<<e1, e2>> : e1 \in items, e2 \in items} : d[1].name # d[2].name}

\* dicts of one item
Singles(names, opts) == {<<Item(n, o)>> : n \in names, o \in opts}

Settings(org_map, team_map) == [ORGANIZATION_MAP |-> org_map, TEAM_MAP |-> team_map]

\* backend.settings of a session: one entry with any options, or several plain entries
MappingTables ==
    {Settings(om, <<>>) : om \in Singles(OrgNames, OrgOpts)}
        \cup {Settings(<<>>, tm) : tm \in Singles(TeamNames, TeamOpts)}
        \cup {Settings(om, tm) : om \in Dicts(OrgNames, OrgOptsPlain),
                                 tm \in Dicts(TeamNames, TeamOptsPlain)}

\* the session handed to the receiver: kwargs['user'] and kwargs['ldap_user']
Sessions ==
    [user : {"alice"}, dn : {DN("alice")}, groups : SessionGroups, settings : MappingTables]

\* stores found at login: nothing yet, or an organization Engineering set up by bob,
\* with or without its team QA, alice in any of their roles; alice's profile holds no
\* ldap_dn yet, her current one, or one she had before she was moved in the directory
InitStores ==
    LET dns == {[alice |-> d, bob |-> DN("bob")] :
                   d \in {"", DN("alice"), "uid=alice,ou=interns,dc=x"}}
        eng == "Engineering"
        qa  == Team("QA", "Engineering")
        in  == {{"bob"}, {"bob", "alice"}}
    IN  {Store({}, {}, <<>>, <<>>, <<>>, d) : d \in dns}
        \cup {Store({eng}, {}, eng :> a, eng :> m, <<>>, d) :
                 a \in in, m \in in, d \in dns}
        \cup {Store({eng}, {qa}, eng :> a, eng :> m, qa :> t, d) :
                 a \in in, m \in in, t \in in, d \in dns}

\* the store held in the variables
TheStore == Store(organizations, teams, admin_role, member_role, team_role, ldap_dn)

SetStore(db) ==
    /\ organizations' = db.organizations
    /\ teams' = db.teams
    /\ admin_role' = db.admin_role
    /\ member_role' = db.member_role
    /\ team_role' = db.team_role
    /\ ldap_dn' = db.ldap_dn

InitSync ==
    /\ AuthIdle
    /\ users = [u \in Usernames |-> NoUser]
    /\ m2m = NoM2M
    /\ \E db \in InitStores :
          /\ organizations = db.organizations
          /\ teams = db.teams
          /\ admin_role = db.admin_role
          /\ member_role = db.member_role
          /\ team_role = db.team_role
          /\ ldap_dn = db.ldap_dn
    /\ ldap_user = NoSession
    /\ sync = NoSync
    /\ NoBackends
    /\ NoWorkers

\* populate_user is sent for a new session: the receiver runs
PopulateUser ==
    /\ ldap_user = NoSession
    /\ \E session \in Sessions :
          LET db == on_populate_user(TheStore, session)
          IN  /\ ldap_user' = session
              /\ SetStore(db)
              /\ sync' = [runs |-> 1, before |-> TheStore, saves |-> db.saves,
                        org_creates |-> db.org_creates,
                        team_creates |-> db.team_creates, oracle |-> db.oracle]
    /\ UNCHANGED <<authVars, m2mVars, ldapVars, raceVars>>

\* populate_user is sent again for the same session (same user, same group
\* snapshot, same settings): the receiver runs again
PopulateUserAgain ==
    /\ ldap_user # NoSession
    /\ sync.runs = 1
    /\ LET db == on_populate_user(TheStore, ldap_user)
       IN  /\ SetStore(db)
           /\ sync' = [runs |-> 2, before |-> TheStore, saves |-> db.saves,
                     org_creates |-> db.org_creates,
                     team_creates |-> db.team_creates, oracle |-> db.oracle]
    /\ UNCHANGED <<ldap_user, authVars, m2mVars, ldapVars, raceVars>>

NextSync ==
    \/ PopulateUser
    \/ PopulateUserAgain

SpecSync == InitSync /\ [][NextSync]_vars

\* C4: the receiver run a second time for the same session leaves the store as the
\* first run left it (organizations, teams, role members, ldap_dn) and saves no profile.
C4_SecondRunChangesNothing ==
    sync.runs = 2 =>
        /\ TheStore = sync.before
        /\ sync.saves = 0
        /\ sync.org_creates = <<>>
        /\ sync.team_creates = <<>>

\* C4 witness: a second run for a session whose first run had created the
\* organization Support and a team in it and put alice into their roles
C4_Witness ==
    /\ sync.runs = 2
    /\ ldap_user.settings.ORGANIZATION_MAP # <<>>
    /\ ldap_user.settings.TEAM_MAP # <<>>
    /\ "Support" \in organizations
    /\ "alice" \in member_role["Support"]
    /\ Team("Dev", "Support") \in teams
    /\ "alice" \in team_role[Team("Dev", "Support")]
    /\ ldap_dn["alice"] = DN("alice")
    /\ TheStore = sync.before

(***************************************************************************)
(* Claims about one run of the receiver                                    *)
(***************************************************************************)
\* a run has happened: ldap_user is its session, sync.before the store it started from
Ran == sync.runs >= 1

\* user is a member of the role kept under key (no row, no membership)
InRole(roles, key, user) == key \in DOMAIN roles /\ user \in roles[key]

\* the rule evaluates true for the session
RuleHolds(rule, groups) == rule = PyBool(TRUE) \/ MatchesGroup(rule, groups)

\* the rule is given (not absent) and evaluates false
RuleFails(rule, groups) == rule # Missing /\ rule # PyNone /\ ~RuleHolds(rule, groups)

OrgItems  == {ldap_user.settings.ORGANIZATION_MAP[i] :
                 i \in 1..Len(ldap_user.settings.ORGANIZATION_MAP)}
TeamItems == {ldap_user.settings.TEAM_MAP[i] :
                 i \in 1..Len(ldap_user.settings.TEAM_MAP)}
ValidTeamItems == {e \in TeamItems : e.opts.organization # Missing}
TeamOf(e) == Team(e.name, e.opts.organization.val)

\* C5: a role whose rule is absent from its entry ('admins' or 'users' key missing)
\* is neither added to nor removed from: the user's membership after the run is its
\* membership before, whatever the remove flags and the group snapshot.
C5_AbsentRuleLeavesRole ==
    Ran =>
        /\ \A e \in OrgItems :
              /\ e.opts.admins = Missing =>
                    (InRole(admin_role, e.name, ldap_user.user)
                        <=> InRole(sync.before.admin_role, e.name, ldap_user.user))
              /\ e.opts.users = Missing =>
                    (InRole(member_role, e.name, ldap_user.user)
                        <=> InRole(sync.before.member_role, e.name, ldap_user.user))
        /\ \A e \in ValidTeamItems :
              e.opts.users = Missing =>
                    (InRole(team_role, TeamOf(e), ldap_user.user)
                        <=> InRole(sync.before.team_role, TeamOf(e), ldap_user.user))

\* C5 witness: alice, outside the admins group, was an admin of Engineering; the
\* entry has no 'admins' key and says remove: she still is
C5_Witness ==
    /\ Ran
    /\ AdminsGroup \notin ldap_user.groups
    /\ \E e \in OrgItems :
          /\ e.name = "Engineering"
          /\ e.opts.admins = Missing
          /\ e.opts.remove = PyBool(TRUE)
          /\ e.opts.remove_admins = PyBool(TRUE)
    /\ InRole(sync.before.admin_role, "Engineering", "alice")
    /\ InRole(admin_role, "Engineering", "alice")

\* the remove flag in force for a role: the per-role override if given, else the
\* entry's 'remove' if given, else true
EffectiveRemove(override, remove) ==
    IF override # Missing THEN bool(override)
    ELSE IF remove # Missing THEN bool(remove)
    ELSE TRUE

\* membership after a rule that failed: gone if the flag is set, else as before
AfterFailedRule(flag, roles, before, key, user) ==
    InRole(roles, key, user) <=> (~flag /\ InRole(before, key, user))

\* C7: for a rule that is given and evaluates false, the user is removed from the
\* role iff the effective remove flag is true (organization roles: remove_admins /
\* remove_users, else 'remove', else true; team: 'remove', else true); with the flag
\* false the membership stays as it was.
C7_RemovalPolicy ==
    Ran =>
        /\ \A e \in OrgItems :
              /\ RuleFails(e.opts.admins, ldap_user.groups) =>
                    AfterFailedRule(EffectiveRemove(e.opts.remove_admins, e.opts.remove),
                                    admin_role, sync.before.admin_role,
                                    e.name, ldap_user.user)
              /\ RuleFails(e.opts.users, ldap_user.groups) =>
                    AfterFailedRule(EffectiveRemove(e.opts.remove_users, e.opts.remove),
                                    member_role, sync.before.member_role,
                                    e.name, ldap_user.user)
        /\ \A e \in ValidTeamItems :
              RuleFails(e.opts.users, ldap_user.groups) =>
                    AfterFailedRule(EffectiveRemove(Missing, e.opts.remove),
                                    team_role, sync.before.team_role,
                                    TeamOf(e), ldap_user.user)

\* C7 witness: the admins rule names a group alice is not in, the entry says remove
\* but remove_admins overrides it with false, and alice, an admin before, stays one;
\* the users rule fails too, with no override, and she is removed from the members
C7_Witness ==
    /\ Ran
    /\ AdminsGroup \notin ldap_user.groups
    /\ \E e \in OrgItems :
          /\ e.name = "Engineering"
          /\ e.opts.admins = PyStr(AdminsGroup)
          /\ e.opts.users = PyBool(FALSE)
          /\ e.opts.remove = PyBool(TRUE)
          /\ e.opts.remove_admins = PyBool(FALSE)
          /\ e.opts.remove_users = Missing
    /\ InRole(sync.before.admin_role, "Engineering", "alice")
    /\ InRole(admin_role, "Engineering", "alice")
    /\ InRole(sync.before.member_role, "Engineering", "alice")
    /\ ~InRole(member_role, "Engineering", "alice")

\* the session with the team entries that lack 'organization' taken out of TEAM_MAP
WithoutInvalidTeams(session) ==
    [session EXCEPT !.settings.TEAM_MAP =
        SelectSeq(@, LAMBDA e : e.opts.organization # Missing)]

\* C8: a team entry without 'organization' is skipped: no organization and no team
\* is created for it, no role changes, and the other organization and team entries
\* are processed to completion (the run ends as the run without that entry ends).
C8_InvalidTeamEntrySkipped ==
    Ran =>
        /\ organizations = sync.before.organizations
                             \cup {e.name : e \in OrgItems}
                             \cup {e.opts.organization.val : e \in ValidTeamItems}
        /\ teams = sync.before.teams \cup {TeamOf(e) : e \in ValidTeamItems}
        /\ LET db == on_populate_user(sync.before, WithoutInvalidTeams(ldap_user))
           IN  /\ TheStore = [db EXCEPT !.saves = 0, !.org_creates = <<>>,
                                          !.team_creates = <<>>, !.oracle = <<>>]
               /\ sync.org_creates = db.org_creates
               /\ sync.team_creates = db.team_creates

\* C8 witness: TEAM_MAP iterates an entry QA without 'organization' first and then
\* Dev of Support; an organization entry is there too; no team QA exists, and Dev of
\* Support was created with alice in it
C8_Witness ==
    /\ Ran
    /\ ldap_user.settings.ORGANIZATION_MAP # <<>>
    /\ Len(ldap_user.settings.TEAM_MAP) = 2
    /\ ldap_user.settings.TEAM_MAP[1].name = "QA"
    /\ ldap_user.settings.TEAM_MAP[1].opts.organization = Missing
    /\ ldap_user.settings.TEAM_MAP[1].opts.users = PyBool(TRUE)
    /\ ldap_user.settings.TEAM_MAP[2].opts.organization = PyStr("Support")
    /\ \A t \in teams : t.name # "QA"
    /\ Team("Dev", "Support") \notin sync.before.teams
    /\ InRole(team_role, Team("Dev", "Support"), "alice")

\* the rows a run inserted, as sets
CreatedOrgs  == {sync.org_creates[i] : i \in 1..Len(sync.org_creates)}
CreatedTeams == {sync.team_creates[i] : i \in 1..Len(sync.team_creates)}

\* C9: after a run, for every team entry naming an organization that organization
\* exists and the team exists in it, each created by the run iff it did not exist
\* (once, never again for an existing one), and if the entry's users rule evaluates
\* true the user is in the team's member role.
C9_TeamsProvisioned ==
    Ran =>
        /\ \A e \in ValidTeamItems :
              /\ e.opts.organization.val \in organizations
              /\ TeamOf(e) \in teams
              /\ e.opts.organization.val \in CreatedOrgs
                    <=> e.opts.organization.val \notin sync.before.organizations
              /\ TeamOf(e) \in CreatedTeams <=> TeamOf(e) \notin sync.before.teams
              /\ RuleHolds(e.opts.users, ldap_user.groups) =>
                    InRole(team_role, TeamOf(e), ldap_user.user)
        /\ CreatedOrgs \cap sync.before.organizations = {}
        /\ CreatedTeams \cap sync.before.teams = {}
        /\ Cardinality(CreatedOrgs) = Len(sync.org_creates)
        /\ Cardinality(CreatedTeams) = Len(sync.team_creates)

\* C9 witness (scenario C): a team entry QA of Engineering with users True, run on a
\* store with no organization: both were created, alice is a member of the team
C9_Witness ==
    /\ Ran
    /\ sync.before.organizations = {}
    /\ \E e \in ValidTeamItems :
          /\ e.name = "QA"
          /\ e.opts.organization = PyStr("Engineering")
          /\ e.opts.users = PyBool(TRUE)
    /\ sync.org_creates = <<"Engineering">>
    /\ sync.team_creates = <<Team("QA", "Engineering")>>
    /\ InRole(team_role, Team("QA", "Engineering"), "alice")

\* C10: the run saves the profile iff the stored ldap_dn differed from the session's
\* dn; after the run the stored ldap_dn is the session's dn; with the dn unchanged
\* nothing is written.
C10_ProfileSavedOnlyOnChange ==
    Ran =>
        /\ sync.saves = (IF sync.before.ldap_dn[ldap_user.user] # ldap_user.dn THEN 1 ELSE 0)
        /\ ldap_dn[ldap_user.user] = ldap_user.dn
        /\ sync.saves = 0 => ldap_dn = sync.before.ldap_dn

\* C10 witness: alice's profile held no ldap_dn; the run stored the session's and
\* saved once
C10_Witness ==
    /\ sync.runs = 1
    /\ sync.before.ldap_dn["alice"] = ""
    /\ ldap_dn["alice"] = ldap_user.dn
    /\ sync.saves = 1

\* the positions of a run's oracle trace that hold a call of the given kind
OracleCalls(op) == {i \in 1..Len(sync.oracle) : sync.oracle[i].op = op}

\* C11: in every run of the receiver get_group_dns is called exactly once, and that
\* call comes before every is_member_of call of the run, however many organization
\* and team entries the mapping tables hold.
C11_PrefetchOnceAndFirst ==
    Ran =>
        /\ Cardinality(OracleCalls("get_group_dns")) = 1
        /\ \A i \in OracleCalls("get_group_dns") :
              \A j \in OracleCalls("is_member_of") : i < j

\* C11 witness: a run over two organization entries and two team entries that asked
\* is_member_of at least three times after its one prefetch
C11_Witness ==
    /\ Ran
    /\ Len(ldap_user.settings.ORGANIZATION_MAP) = 2
    /\ Len(ldap_user.settings.TEAM_MAP) = 2
    /\ sync.oracle[1].op = "get_group_dns"
    /\ Cardinality(OracleCalls("is_member_of")) >= 3

\* the items of a dict, as a set
ItemsOf(d) == {d[i] : i \in 1..Len(d)}

\* every order in which the items of the dict d can be iterated
Orders(d) == {s \in [1..Len(d) -> ItemsOf(d)] : {s[i] : i \in 1..Len(d)} = ItemsOf(d)}

\* what a run leaves in the store: the rows and the members of every role
Memberships(db) ==
    [organizations |-> db.organizations, teams |-> db.teams,
     admin_role |-> db.admin_role, member_role |-> db.member_role,
     team_role |-> db.team_role]

\* C16: for one store, one group snapshot and one pair of mapping tables, the run
\* ends with the same organizations, teams and role members whatever the order in
\* which ORGANIZATION_MAP and TEAM_MAP iterate their items (organizations first,
\* teams second).
C16_OrderIndependent ==
    Ran =>
        \A om \in Orders(ldap_user.settings.ORGANIZATION_MAP) :
            \A tm \in Orders(ldap_user.settings.TEAM_MAP) :
                Memberships(on_populate_user(sync.before,
                                [ldap_user EXCEPT !.settings = Settings(om, tm)]))
                    = Memberships(TheStore)

\* C16 witness: a run over two organization entries with different rules and two
\* team entries, which created an organization and put alice into a role
C16_Witness ==
    /\ sync.runs = 1
    /\ Len(ldap_user.settings.ORGANIZATION_MAP) = 2
    /\ Len(ldap_user.settings.TEAM_MAP) = 2
    /\ ldap_user.settings.ORGANIZATION_MAP[1].opts
           # ldap_user.settings.ORGANIZATION_MAP[2].opts
    /\ ldap_user.settings.TEAM_MAP[1].opts # ldap_user.settings.TEAM_MAP[2].opts
    /\ sync.org_creates # <<>>
    /\ \E o \in organizations :
          /\ InRole(member_role, o, "alice")
          /\ ~InRole(sync.before.member_role, o, "alice")

\* the names that are keys of ORGANIZATION_MAP, and the teams of the TEAM_MAP
\* entries that name an organization
MappedOrgs  == {e.name : e \in OrgItems}
MappedTeams == {TeamOf(e) : e \in ValidTeamItems}

\* C19: a run for user P changes nothing but P's membership in the admin and member
\* roles of the organizations that are keys of ORGANIZATION_MAP and in the member
\* role of the teams of valid TEAM_MAP entries (and P's ldap_dn): every other user's
\* memberships and ldap_dn, and P's memberships in every other organization and
\* team, are as before, and no organization, team or profile row is removed.
C19_Frame ==
    Ran =>
        LET P == ldap_user.user
            b == sync.before
        IN  /\ b.organizations \subseteq organizations
            /\ b.teams \subseteq teams
            /\ DOMAIN ldap_dn = DOMAIN b.ldap_dn
            /\ \A u \in Usernames \ {P} : ldap_dn[u] = b.ldap_dn[u]
            /\ \A o \in organizations : \A u \in Usernames :
                  (u # P \/ o \notin MappedOrgs) =>
                      /\ InRole(admin_role, o, u) <=> InRole(b.admin_role, o, u)
                      /\ InRole(member_role, o, u) <=> InRole(b.member_role, o, u)
            /\ \A t \in teams : \A u \in Usernames :
                  (u # P \/ t \notin MappedTeams) =>
                      (InRole(team_role, t, u) <=> InRole(b.team_role, t, u))

\* C19 witness: a run whose only entry is the organization Support, with failing
\* rules that remove, in a store where bob and alice are admins and members of
\* Engineering and of its team QA: Support is created, alice stays where she was
C19_Witness ==
    /\ sync.runs = 1
    /\ MappedOrgs = {"Support"}
    /\ MappedTeams = {}
    /\ \E e \in OrgItems :
          /\ RuleFails(e.opts.admins, ldap_user.groups)
          /\ RuleHolds(e.opts.users, ldap_user.groups)
    /\ sync.before.organizations = {"Engineering"}
    /\ sync.before.teams = {Team("QA", "Engineering")}
    /\ sync.before.admin_role["Engineering"] = {"bob", "alice"}
    /\ admin_role["Engineering"] = {"bob", "alice"}
    /\ member_role["Engineering"] = {"bob", "alice"}
    /\ team_role[Team("QA", "Engineering")] = {"bob", "alice"}
    /\ organizations = {"Engineering", "Support"}
    /\ member_role["Support"] = {"alice"}

\* C20: after a run every organization that is a key of ORGANIZATION_MAP exists, and
\* so do the organization and the team of every TEAM_MAP entry with an
\* 'organization' key, whether or not any rule of the entry is given or evaluates
\* true; the rows that did not exist before are created by the run.
C20_CreatedWhateverTheRules ==
    Ran =>
        /\ MappedOrgs \subseteq organizations
        /\ \A e \in ValidTeamItems :
              /\ e.opts.organization.val \in organizations
              /\ TeamOf(e) \in teams
        /\ \A o \in (MappedOrgs \cup {e.opts.organization.val : e \in ValidTeamItems})
                       \ sync.before.organizations : o \in CreatedOrgs
        /\ \A t \in MappedTeams \ sync.before.teams : t \in CreatedTeams

\* C20 witness: a run whose organization entry gives no rule at all created the
\* organization, and no user is in any role after it that was not in it before
C20_Witness ==
    /\ sync.runs = 1
    /\ \E e \in OrgItems :
          /\ e.opts.admins = Missing
          /\ e.opts.users = Missing
          /\ e.name \notin sync.before.organizations
          /\ e.name \in organizations
          /\ admin_role[e.name] = {}
          /\ member_role[e.name] = {}
    /\ \A o \in sync.before.organizations :
          /\ admin_role[o] = sync.before.admin_role[o]
          /\ member_role[o] = sync.before.member_role[o]
    /\ sync.before.organizations # {}

\* the call in the variables is op of backend b, and it has returned
Returned(b, op) == pc = "returned" /\ request.backend = b /\ request.op = op

\* TACACS+ is configured and licensed, and the client was given the credentials,
\* raised nothing and reported them valid
TACACSAccepted(req) ==
    /\ Truthy(req.settings["TACACSPLUS_HOST"])
    /\ feature_enabled(req.license, "enterprise_auth")
    /\ req.password # None
    /\ req.client = "valid"

\* C17: TACACS+ authenticate returns a user iff the backend is configured and
\* licensed and the client raises nothing and reports the credentials valid; it
\* raises nothing itself; in every other case it returns None and leaves the user
\* table as it found it; it never writes another user's row; and a row it creates
\* is no superuser and has an unusable password.
C17_TACACSProvisionsOnlyOnSuccess ==
    Returned("tacacsplus", "authenticate") =>
        /\ (outcome.result # None) <=> TACACSAccepted(request)
        /\ outcome.result # None => outcome.result = request.username
        /\ ~outcome.raised
        /\ ~TACACSAccepted(request) => users = request.users
        /\ \A u \in Usernames \ {request.username} : users[u] = request.users[u]
        /\ \A u \in Usernames :
              (~request.users[u].exists /\ users[u].exists) =>
                  /\ ~users[u].is_superuser
                  /\ ~users[u].usable_password

\* C17 witness: the client accepted alice, who had no row: she has one now, no
\* superuser and with an unusable password, and bob's row is a superuser's as before
C17_Witness ==
    /\ Returned("tacacsplus", "authenticate")
    /\ TACACSAccepted(request)
    /\ request.username = "alice"
    /\ ~request.users["alice"].exists
    /\ users["alice"] = [exists |-> TRUE, is_superuser |-> FALSE, usable_password |-> FALSE]
    /\ users["bob"].is_superuser
    /\ outcome.result = "alice"

\* get_django_user was called: RADIUS is configured and licensed and the server
\* accepted the credentials
RADIUSResolved ==
    /\ Returned("radius", "authenticate")
    /\ Truthy(request.settings["RADIUS_SERVER"])
    /\ feature_enabled(request.license, "enterprise_auth")
    /\ request.client = "valid"

\* C18: after RADIUS get_django_user(username, password) a row with that username
\* exists in the user table (the one found, or a new one), and its password was
\* made unusable only if a password was given (password is not None).
C18_GetDjangoUserGetsOrCreates ==
    RADIUSResolved =>
        /\ outcome.result = request.username
        /\ users[request.username].exists
        /\ request.password = None => users = request.users
        /\ \A u \in Usernames \ {request.username} : users[u] = request.users[u]

(***************************************************************************)
(* LDAPBackend: the cached settings and the subscription to setting_changed *)
(***************************************************************************)
settings_prefix == "AUTH_LDAP_"

\* str.startswith
startswith(s, p) == Len(s) >= Len(p) /\ SubSeq(s, 1, Len(p)) = p

\* values uuid.uuid4() can return; no value is returned twice
UUIDs == 1..MaxBackends

\* the number of LDAPSettings objects a behaviour constructs at most
MaxSnapshots == 3

\* Signal.connect(receiver, dispatch_uid=uid): a uid already connected is not
\* connected again
connect(recvs, uid, receiver) ==
    IF \E r \in recvs : r.uid = uid
    THEN recvs
    ELSE recvs \cup {[uid |-> uid, receiver |-> receiver]}

\* Signal.disconnect(dispatch_uid=uid)
disconnect(recvs, uid) == {r \in recvs : r.uid # uid}

\* variant: every instance connects under one dispatch_uid
LDAPBackend_init_shared_uid(i, uid, recvs) ==
    [self      |-> [state |-> "live", _dispatch_uid |-> 1, _settings |-> NoSettings],
     receivers |-> connect(recvs, 1, i)]

\* __init__ of instance i, uid being the value of uuid.uuid4(): the instance and
\* the signal's receivers after it
LDAPBackend_init(i, uid, recvs) ==
    [self      |-> [state |-> "live", _dispatch_uid |-> uid, _settings |-> NoSettings],
     receivers |-> connect(recvs, uid, i)]

\* __del__: the signal's receivers after it
LDAPBackend_del(self, recvs) == disconnect(recvs, self._dispatch_uid)

\* variant: every setting_changed signal drops the cached settings
LDAPBackend_on_setting_changed_any(self, kwargs) == [self EXCEPT !._settings = NoSettings]

\* _on_setting_changed(sender, **kwargs): the instance after it
LDAPBackend_on_setting_changed(self, kwargs) ==
    IF startswith(get(kwargs, "setting", PyStr("")).val, settings_prefix)
    THEN [self EXCEPT !._settings = NoSettings]
    ELSE self

\* _get_settings, statement by statement: the test, the assignment of a newly
\* constructed LDAPSettings, the return
get_settings_is_none(self) == self._settings = NoSettings
get_settings_assign(self, new) == [self EXCEPT !._settings = new]
get_settings_return(self) == self._settings

\* _get_settings run without interruption: the instance after it and the value
\* returned; made is the number of LDAPSettings objects constructed before
LDAPBackend_get_settings(self, made) ==
    LET self1 == IF get_settings_is_none(self)
                 THEN get_settings_assign(self, made + 1)
                 ELSE self
    IN  [self |-> self1, result |-> get_settings_return(self1),
         snapshots |-> IF get_settings_is_none(self) THEN made + 1 ELSE made]

\* keyword arguments of a setting_changed signal: a setting name, or no 'setting'
SettingNames ==
    {"AUTH_LDAP_SERVER_URI", "AUTH_LDAP_TEAM_MAP", "AUTH_LDAP", "RADIUS_SERVER", ""}
SignalKwargs == [setting : {Missing} \cup {PyStr(n) : n \in SettingNames}]

Live == {i \in Instances : backends[i].state = "live"}

\* the instances setting_changed.send calls
Connected(recvs) == {r.receiver : r \in recvs}

\* the signal names a setting of the LDAP backend
NamesLDAPSetting(kwargs) ==
    kwargs.setting \in {PyStr("AUTH_LDAP_SERVER_URI"), PyStr("AUTH_LDAP_TEAM_MAP")}

\* the record of a call: the instance it was made on, the signal's keyword
\* arguments and the instances it called, the value a settings access returned,
\* the instances, receivers and number of LDAPSettings objects it found; and for
\* every instance the value its last settings access returned and whether a signal
\* naming an LDAP setting has called it since
Signal(kind, self, kwargs, to, got, returned, notified) ==
    [kind |-> kind, self |-> self, kwargs |-> kwargs, to |-> to, got |-> got,
     backends |-> backends, receivers |-> receivers, snapshots |-> snapshots,
     returned |-> returned, notified |-> notified,
     previous |-> IF kind = "get" THEN signal.returned[self] ELSE NoSettings,
     since    |-> IF kind = "get" THEN signal.notified[self] ELSE FALSE]

StartSignal ==
    [kind |-> "none", returned |-> [i \in Instances |-> NoSettings],
     notified |-> [i \in Instances |-> FALSE]]

\* LDAPBackend(): construction of instance i
LDAPBackendInit(i) ==
    /\ backends[i].state = "unborn"
    /\ \E uid \in UUIDs \ {backends[j]._dispatch_uid : j \in Instances} :
          LET new == LDAPBackend_init(i, uid, receivers)
          IN  /\ backends' = [backends EXCEPT ![i] = new.self]
              /\ receivers' = new.receivers
    /\ signal' = Signal("init", i, [setting |-> Missing], {}, NoSettings,
                        signal.returned, signal.notified)
    /\ UNCHANGED <<snapshots, thread, authVars, m2mVars, syncVars, raceVars>>

\* the instance is collected: __del__ runs. An instance a thread is inside of is
\* referenced and is not collected.
LDAPBackendDel(i) ==
    /\ backends[i].state = "live"
    /\ ~(thread.pc # "idle" /\ thread.self = i)
    /\ receivers' = LDAPBackend_del(backends[i], receivers)
    /\ backends' = [backends EXCEPT ![i].state = "dead"]
    /\ signal' = Signal("del", i, [setting |-> Missing], {}, NoSettings,
                        signal.returned, signal.notified)
    /\ UNCHANGED <<snapshots, thread, authVars, m2mVars, syncVars, raceVars>>

\* setting_changed.send(**kwargs): every connected receiver is called
SettingChanged(kwargs) ==
    /\ backends' = [i \in Instances |->
                       IF i \in Connected(receivers)
                       THEN LDAPBackend_on_setting_changed(backends[i], kwargs)
                       ELSE backends[i]]
    /\ signal' = Signal("send", 0, kwargs, Connected(receivers), NoSettings,
                        signal.returned,
                        [i \in Instances |->
                            \/ signal.notified[i]
                            \/ /\ i \in Connected(receivers)
                               /\ NamesLDAPSetting(kwargs)])
    /\ UNCHANGED <<receivers, snapshots, thread, authVars, m2mVars, syncVars, raceVars>>

\* backend.settings is read on instance i, with no other thread running
GetSettings(i) ==
    /\ backends[i].state = "live"
    /\ thread.pc = "idle"
    /\ get_settings_is_none(backends[i]) => snapshots < MaxSnapshots
    /\ LET call == LDAPBackend_get_settings(backends[i], snapshots)
       IN  /\ backends' = [backends EXCEPT ![i] = call.self]
           /\ snapshots' = call.snapshots
           /\ signal' = Signal("get", i, [setting |-> Missing], {}, call.result,
                               [signal.returned EXCEPT ![i] = call.result],
                               [signal.notified EXCEPT ![i] = FALSE])
    /\ UNCHANGED <<receivers, thread, authVars, m2mVars, syncVars, raceVars>>

InitLDAP ==
    /\ AuthIdle
    /\ users = [u \in Usernames |-> NoUser]
    /\ m2m = NoM2M
    /\ StoreEmpty
    /\ NoWorkers
    /\ backends = [i \in Instances |-> Unborn]
    /\ receivers = {}
    /\ snapshots = 0
    /\ signal = StartSignal
    /\ thread = NoThread

NextLDAP ==
    \/ \E i \in Instances : LDAPBackendInit(i)
    \/ \E i \in Instances : LDAPBackendDel(i)
    \/ \E kwargs \in SignalKwargs : SettingChanged(kwargs)
    \/ \E i \in Instances : GetSettings(i)

SpecLDAP == InitLDAP /\ [][NextLDAP]_vars

\* C13: a setting_changed signal naming a setting that begins with AUTH_LDAP_ leaves
\* every live instance without cached settings, and the next settings access of such
\* an instance constructs a new LDAPSettings object; a signal naming another setting,
\* or none, leaves every instance as it was; and a settings access with no such
\* signal since the instance's last access returns the object that access returned.
C13_HotReload ==
    /\ signal.kind = "send" =>
          IF NamesLDAPSetting(signal.kwargs)
          THEN \A i \in Instances :
                  IF signal.backends[i].state = "live"
                  THEN backends[i] = [signal.backends[i] EXCEPT !._settings = NoSettings]
                  ELSE backends[i] = signal.backends[i]
          ELSE backends = signal.backends
    /\ signal.kind = "get" =>
          /\ signal.got # NoSettings
          /\ backends = [signal.backends EXCEPT ![signal.self]._settings = signal.got]
          /\ (signal.previous # NoSettings /\ ~signal.since) =>
                /\ signal.got = signal.previous
                /\ snapshots = signal.snapshots
          /\ signal.since =>
                /\ signal.got # signal.previous
                /\ snapshots = signal.snapshots + 1
                /\ signal.got = snapshots

\* C13 witness: an instance whose settings were read, then dropped by a signal
\* naming an AUTH_LDAP_ setting, is read again and returns a new object, while
\* a signal naming another setting had left the first object in place
C13_Witness ==
    /\ signal.kind = "get"
    /\ signal.since
    /\ signal.previous = 1
    /\ signal.got = 2
    /\ backends[signal.self]._settings = 2

\* C14: every live instance is connected to setting_changed exactly once, under its
\* own _dispatch_uid, which no other instance ever constructed has; no receiver
\* belongs to an instance that is not live; a signal calls exactly the instances
\* live when it is sent; and __del__ of an instance removes its own receiver only.
C14_SubscriptionLifecycle ==
    /\ \A i \in Live :
          {r \in receivers : r.receiver = i}
              = {[uid |-> backends[i]._dispatch_uid, receiver |-> i]}
    /\ \A i, j \in Instances :
          (i # j /\ backends[i].state # "unborn" /\ backends[j].state # "unborn") =>
              backends[i]._dispatch_uid # backends[j]._dispatch_uid
    /\ \A r \in receivers : backends[r.receiver].state = "live"
    /\ signal.kind = "send" =>
          signal.to = {i \in Instances : signal.backends[i].state = "live"}
    /\ signal.kind = "del" =>
          receivers = signal.receivers
                         \ {[uid |-> signal.backends[signal.self]._dispatch_uid,
                             receiver |-> signal.self]}

\* C14 witness: two instances were constructed and read their settings, one was
\* collected, and a signal naming an AUTH_LDAP_ setting then called the other
\* alone: the collected one still holds its settings object
C14_Witness ==
    /\ signal.kind = "send"
    /\ NamesLDAPSetting(signal.kwargs)
    /\ \E i, j \in Instances :
          /\ backends[i].state = "dead"
          /\ backends[i]._settings # NoSettings
          /\ backends[j].state = "live"
          /\ signal.backends[j]._settings # NoSettings
          /\ backends[j]._settings = NoSettings
          /\ signal.to = {j}

(***************************************************************************)
(* SpecLDAPThreads: a thread reads backend.settings, statement by statement, *)
(* while setting_changed is sent from other threads                        *)
(***************************************************************************)
Thread(at, self, got) == [pc |-> at, self |-> self, got |-> got]

\* the thread enters _get_settings of instance i and tests self._settings is None
ThreadTest(i) ==
    /\ thread.pc = "idle"
    /\ backends[i].state = "live"
    /\ thread' = Thread(IF get_settings_is_none(backends[i]) THEN "assign" ELSE "return",
                        i, NoSettings)
    /\ UNCHANGED <<backends, receivers, snapshots, signal, authVars, m2mVars,
                   syncVars, raceVars>>

\* self._settings = LDAPSettings(self.settings_prefix)
ThreadAssign ==
    /\ thread.pc = "assign"
    /\ snapshots < MaxSnapshots
    /\ snapshots' = snapshots + 1
    /\ backends' = [backends EXCEPT
                       ![thread.self] = get_settings_assign(@, snapshots + 1)]
    /\ thread' = [thread EXCEPT !.pc = "return"]
    /\ UNCHANGED <<receivers, signal, authVars, m2mVars, syncVars, raceVars>>

\* return self._settings
ThreadReturn ==
    /\ thread.pc = "return"
    /\ thread' = [thread EXCEPT !.pc = "returned",
                                !.got = get_settings_return(backends[thread.self])]
    /\ UNCHANGED <<backends, receivers, snapshots, signal, authVars, m2mVars,
                   syncVars, raceVars>>

\* the caller has the value; the thread goes on to other work
ThreadExit ==
    /\ thread.pc = "returned"
    /\ thread' = NoThread
    /\ UNCHANGED <<backends, receivers, snapshots, signal, authVars, m2mVars,
                   syncVars, raceVars>>

NextLDAPThreads ==
    \/ \E i \in Instances : LDAPBackendInit(i)
    \/ \E i \in Instances : LDAPBackendDel(i)
    \/ \E kwargs \in SignalKwargs : SettingChanged(kwargs)
    \/ \E i \in Instances : ThreadTest(i)
    \/ ThreadAssign
    \/ ThreadReturn
    \/ ThreadExit

SpecLDAPThreads == InitLDAP /\ [][NextLDAPThreads]_vars

\* C12: a settings read that runs while setting_changed is sent from another thread
\* returns an LDAPSettings object, the one cached before or a newly constructed one:
\* in no interleaving does it return None.
C12_ReaderNeverGetsNone ==
    thread.pc = "returned" => thread.got # NoSettings

(***************************************************************************)
(* SpecRace: the receiver run for two sessions at once, one database        *)
(* statement at a time                                                     *)
(***************************************************************************)
\* the sessions: alice is in both groups, bob in the users group only
RaceGroups(user) == IF user = "alice" THEN Groups ELSE Groups \ {AdminsGroup}

\* the mapping tables both sessions read: at most one organization entry and one
\* team entry, which may name the same organization
RaceSettings ==
    {Settings(om, tm) : om \in {<<>>} \cup Singles({"Engineering"}, OrgOptsPlain),
                        tm \in {<<>>} \cup Singles({"QA"}, TeamOptsPlain)}

\* rows are told apart by their id; roles are kept by row id
OrgRow(id, name) == [id |-> id, name |-> name]
TeamRow(id, name, org) == [id |-> id, name |-> name, organization |-> org]

Tables(orgs, tms, admins, members, tmembers, dns) ==
    [organizations |-> orgs, teams |-> tms, admin_role |-> admins,
     member_role |-> members, team_role |-> tmembers, ldap_dn |-> dns]

\* the tables at login: empty, or holding the organization Engineering
RaceStores ==
    LET dns == [u \in Usernames |-> ""]
    IN  {Tables({}, {}, <<>>, <<>>, <<>>, dns),
         Tables({OrgRow(1, "Engineering")}, {}, 1 :> {"bob"}, 1 :> {"bob"}, <<>>, dns)}

\* Organization.name is unique: an insert of a name a row holds is refused
OrganizationNameTaken(tbl, name) == \E r \in tbl.organizations : r.name = name

\* a team's name is unique within its organization
TeamNameTaken(tbl, name, org) ==
    \E r \in tbl.teams : r.name = name /\ r.organization = org

\* where a run stands: in the organization loop or the team loop at entry i, at the
\* lookup or the insert of a get_or_create or at the role updates; at the profile;
\* done; or ended by an exception
Worker(user, settings, phase, i, at) ==
    [user |-> user, groups |-> RaceGroups(user), settings |-> settings,
     phase |-> phase, i |-> i, at |-> at, org |-> 0, team |-> 0,
     org_conflict |-> FALSE, team_conflict |-> FALSE]

\* the worker at the head of entry i of the loop of phase, or past the loop
Goto(w, phase, i) ==
    LET orgs == Len(w.settings.ORGANIZATION_MAP)
        tms  == Len(w.settings.TEAM_MAP)
    IN  IF phase = "orgs" /\ i <= orgs
        THEN [w EXCEPT !.phase = "orgs", !.i = i, !.at = "org_get"]
        ELSE IF phase = "orgs" /\ tms >= 1
        THEN [w EXCEPT !.phase = "teams", !.i = 1, !.at = "org_get"]
        ELSE IF phase = "teams" /\ i <= tms
        THEN [w EXCEPT !.phase = "teams", !.i = i, !.at = "org_get"]
        ELSE [w EXCEPT !.phase = "profile", !.i = 0, !.at = "profile"]

\* the entry the worker is at
Entry(w) ==
    IF w.phase = "orgs" THEN w.settings.ORGANIZATION_MAP[w.i] ELSE w.settings.TEAM_MAP[w.i]

\* the organization name the worker's get_or_create is about
OrgNameAt(w) ==
    IF w.phase = "orgs" THEN Entry(w).name ELSE Entry(w).opts.organization.val

\* after the organization is in hand: its roles, or the team
AfterOrg(w) == IF w.phase = "orgs" THEN "roles" ELSE "team_get"

\* Organization.objects.get_or_create, the lookup
org_get(tbl, w) ==
    LET found == {r \in tbl.organizations : r.name = OrgNameAt(w)}
    IN  IF found = {}
        THEN [w EXCEPT !.at = "org_insert"]
        ELSE IF Cardinality(found) > 1
        THEN [w EXCEPT !.phase = "error"]
        ELSE [w EXCEPT !.org = (CHOOSE r \in found : TRUE).id, !.at = AfterOrg(w)]

\* variant: Organization.objects.create after the lookup found nothing; a refused
\* insert raises
org_insert_create(tbl, w) ==
    LET name == OrgNameAt(w)
        id   == Cardinality(tbl.organizations) + 1
    IN  IF OrganizationNameTaken(tbl, name)
        THEN [tables |-> tbl, worker |-> [w EXCEPT !.phase = "error"]]
        ELSE [tables |-> [tbl EXCEPT !.organizations = @ \cup {OrgRow(id, name)},
                                     !.admin_role    = (id :> {}) @@ @,
                                     !.member_role   = (id :> {}) @@ @],
              worker |-> [w EXCEPT !.org = id, !.at = AfterOrg(w)]]

\* Organization.objects.get_or_create, the insert after the lookup found nothing:
\* a refused insert is answered by fetching the row that is there
org_insert(tbl, w) ==
    LET name == OrgNameAt(w)
        id   == Cardinality(tbl.organizations) + 1
    IN  IF OrganizationNameTaken(tbl, name)
        THEN [tables |-> tbl,
              worker |-> [w EXCEPT
                             !.org = (CHOOSE r \in tbl.organizations : r.name = name).id,
                             !.at = AfterOrg(w), !.org_conflict = TRUE]]
        ELSE [tables |-> [tbl EXCEPT !.organizations = @ \cup {OrgRow(id, name)},
                                     !.admin_role    = (id :> {}) @@ @,
                                     !.member_role   = (id :> {}) @@ @],
              worker |-> [w EXCEPT !.org = id, !.at = AfterOrg(w)]]

\* Team.objects.get_or_create, the lookup
team_get(tbl, w) ==
    LET found == {r \in tbl.teams : r.name = Entry(w).name /\ r.organization = w.org}
    IN  IF found = {}
        THEN [w EXCEPT !.at = "team_insert"]
        ELSE IF Cardinality(found) > 1
        THEN [w EXCEPT !.phase = "error"]
        ELSE [w EXCEPT !.team = (CHOOSE r \in found : TRUE).id, !.at = "roles"]

\* Team.objects.get_or_create, the insert after the lookup found nothing
team_insert(tbl, w) ==
    LET name == Entry(w).name
        id   == Cardinality(tbl.teams) + 1
    IN  IF TeamNameTaken(tbl, name, w.org)
        THEN [tables |-> tbl,
              worker |-> [w EXCEPT
                             !.team = (CHOOSE r \in tbl.teams :
                                          r.name = name /\ r.organization = w.org).id,
                             !.at = "roles", !.team_conflict = TRUE]]
        ELSE [tables |-> [tbl EXCEPT !.teams = @ \cup {TeamRow(id, name, w.org)},
                                     !.team_role = (id :> {}) @@ @],
              worker |-> [w EXCEPT !.team = id, !.at = "roles"]]

\* the role updates of the entry on the rows in hand
entry_roles(tbl, w) ==
    LET opts   == Entry(w).opts
        remove == bool(get(opts, "remove", PyBool(TRUE)))
    IN  IF w.phase = "orgs"
        THEN [tbl EXCEPT
                 !.admin_role[w.org] =
                     update_m2m_from_groups(w.user, w.groups, @, get(opts, "admins", PyNone),
                         bool(get(opts, "remove_admins", PyBool(remove)))),
                 !.member_role[w.org] =
                     update_m2m_from_groups(w.user, w.groups, @, get(opts, "users", PyNone),
                         bool(get(opts, "remove_users", PyBool(remove))))]
        ELSE [tbl EXCEPT
                 !.team_role[w.team] =
                     update_m2m_from_groups(w.user, w.groups, @, get(opts, "users", PyNone),
                                            remove)]

Running(u, at) == workers[u].phase \in {"orgs", "teams"} /\ workers[u].at = at

\* a team entry without 'organization': continue
RaceSkipTeam(u) ==
    /\ Running(u, "org_get")
    /\ workers[u].phase = "teams"
    /\ Entry(workers[u]).opts.organization = Missing
    /\ workers' = [workers EXCEPT ![u] = Goto(@, "teams", @.i + 1)]
    /\ UNCHANGED <<tables, authVars, m2mVars, syncVars, ldapVars>>

RaceOrgGet(u) ==
    /\ Running(u, "org_get")
    /\ workers[u].phase = "teams" => Entry(workers[u]).opts.organization # Missing
    /\ workers' = [workers EXCEPT ![u] = org_get(tables, @)]
    /\ UNCHANGED <<tables, authVars, m2mVars, syncVars, ldapVars>>

RaceOrgInsert(u) ==
    /\ Running(u, "org_insert")
    /\ LET done == org_insert(tables, workers[u])
       IN  /\ tables' = done.tables
           /\ workers' = [workers EXCEPT ![u] = done.worker]
    /\ UNCHANGED <<authVars, m2mVars, syncVars, ldapVars>>

RaceTeamGet(u) ==
    /\ Running(u, "team_get")
    /\ workers' = [workers EXCEPT ![u] = team_get(tables, @)]
    /\ UNCHANGED <<tables, authVars, m2mVars, syncVars, ldapVars>>

RaceTeamInsert(u) ==
    /\ Running(u, "team_insert")
    /\ LET done == team_insert(tables, workers[u])
       IN  /\ tables' = done.tables
           /\ workers' = [workers EXCEPT ![u] = done.worker]
    /\ UNCHANGED <<authVars, m2mVars, syncVars, ldapVars>>

RaceRoles(u) ==
    /\ Running(u, "roles")
    /\ tables' = entry_roles(tables, workers[u])
    /\ workers' = [workers EXCEPT ![u] = Goto(@, @.phase, @.i + 1)]
    /\ UNCHANGED <<authVars, m2mVars, syncVars, ldapVars>>

\* profile.ldap_dn is written and saved when it differs
RaceProfile(u) ==
    /\ workers[u].phase = "profile"
    /\ tables' = IF tables.ldap_dn[u] # DN(u)
                 THEN [tables EXCEPT !.ldap_dn[u] = DN(u)]
                 ELSE tables
    /\ workers' = [workers EXCEPT ![u].phase = "done", ![u].at = "done"]
    /\ UNCHANGED <<authVars, m2mVars, syncVars, ldapVars>>

InitRace ==
    /\ AuthIdle
    /\ users = [u \in Usernames |-> NoUser]
    /\ m2m = NoM2M
    /\ StoreEmpty
    /\ NoBackends
    /\ tables \in RaceStores
    /\ \E settings \in RaceSettings :
          workers = [u \in Usernames |->
                        Goto(Worker(u, settings, "orgs", 1, "org_get"), "orgs", 1)]

NextRace ==
    \/ \E u \in Usernames : RaceSkipTeam(u)
    \/ \E u \in Usernames : RaceOrgGet(u)
    \/ \E u \in Usernames : RaceOrgInsert(u)
    \/ \E u \in Usernames : RaceTeamGet(u)
    \/ \E u \in Usernames : RaceTeamInsert(u)
    \/ \E u \in Usernames : RaceRoles(u)
    \/ \E u \in Usernames : RaceProfile(u)

SpecRace == InitRace /\ [][NextRace]_vars

\* the organization names and the teams the shared mapping tables ask for
RaceOrgNames ==
    LET s == workers["alice"].settings
    IN  {s.ORGANIZATION_MAP[i].name : i \in 1..Len(s.ORGANIZATION_MAP)}
            \cup {s.TEAM_MAP[i].opts.organization.val :
                     i \in {j \in 1..Len(s.TEAM_MAP) :
                               s.TEAM_MAP[j].opts.organization # Missing}}
RaceTeams ==
    LET s == workers["alice"].settings
    IN  {Team(s.TEAM_MAP[i].name, s.TEAM_MAP[i].opts.organization.val) :
            i \in {j \in 1..Len(s.TEAM_MAP) : s.TEAM_MAP[j].opts.organization # Missing}}

AllDone == \A u \in Usernames : workers[u].phase = "done"

\* C15: two sessions run the receiver at once on mapping tables that name the same
\* organization (and the same team in it): in every interleaving no run ends in an
\* exception, no two rows ever hold the same organization name or the same team
\* name in one organization, and when both runs are done each organization and
\* team asked for exists in exactly one row.
C15_ConcurrentFirstSync ==
    /\ \A u \in Usernames : workers[u].phase # "error"
    /\ \A r1, r2 \in tables.organizations : r1.name = r2.name => r1 = r2
    /\ \A r1, r2 \in tables.teams :
          (r1.name = r2.name /\ r1.organization = r2.organization) => r1 = r2
    /\ AllDone =>
          /\ \A n \in RaceOrgNames :
                Cardinality({r \in tables.organizations : r.name = n}) = 1
          /\ \A t \in RaceTeams :
                Cardinality({r \in tables.teams :
                    /\ r.name = t.name
                    /\ \E o \in tables.organizations :
                          o.id = r.organization /\ o.name = t.organization}) = 1

\* C15 witness: both runs are done; both had looked for the organization and for
\* the team before either row existed, so one run's inserts were refused and it
\* fetched the other's rows: one organization row and one team row exist
C15_Witness ==
    /\ AllDone
    /\ \E u \in Usernames : workers[u].org_conflict /\ workers[u].team_conflict
    /\ Cardinality(tables.organizations) = 1
    /\ Cardinality(tables.teams) = 1
    /\ \A u \in Usernames : workers[u].org = 1 /\ workers[u].team = 1

====
